---- MODULE Spec2Model ----
(***************************************************************************)
(* Model of the resumable, batched FAA-registry scraper (src/main.py):     *)
(* Scraper.get_first_empty_index, write_record, process_record,            *)
(* gather_with_concurrency and run_scraper, together with the CSV mirror   *)
(* of the DataFrame (pandas read_csv / to_csv).                            *)
(***************************************************************************)
EXTENDS Integers, Sequences, FiniteSets, TLC

\* ------------------------------------------------------------------ bounds
\* Largest number of rows of an input dataset.
MaxLen == 3

\* batch_size = 20 in the source (line 159); scaled down so that a dataset
\* of MaxLen rows spans a full batch and a short last batch.
batch_size == 2

\* ------------------------------------------------------------ cell values
\* A DataFrame cell is either the float NaN or a Python str; a CSV cell is
\* text.  NaN is represented by a tag no text cell can take.
NaN == "<NaN>"
NA == "N/A"
Valid == "Valid"
Expired == "Expired"

\* self.columns
columns ==
    << "STATUS", "MANUFACTURER NAME", "MODEL", "TYPE AIRCRAFT",
       "TYPE ENGINE", "PENDING NUMBER CHANGE", "DATE CHANGE AUTHORIZED",
       "TYPE REGISTRATION", "COUNTY", "ENGINE MANUFACTURER", "ENGINE MODEL" >>

ColumnSet == { columns[k] : k \in 1..Len(columns) }

\* str.title() on the schema's column names
title(column) ==
    CASE column = "STATUS" -> "Status"
      [] column = "MANUFACTURER NAME" -> "Manufacturer Name"
      [] column = "MODEL" -> "Model"
      [] column = "TYPE AIRCRAFT" -> "Type Aircraft"
      [] column = "TYPE ENGINE" -> "Type Engine"
      [] column = "PENDING NUMBER CHANGE" -> "Pending Number Change"
      [] column = "DATE CHANGE AUTHORIZED" -> "Date Change Authorized"
      [] column = "TYPE REGISTRATION" -> "Type Registration"
      [] column = "COUNTY" -> "County"
      [] column = "ENGINE MANUFACTURER" -> "Engine Manufacturer"
      [] column = "ENGINE MODEL" -> "Engine Model"

Min(a, b) == IF a < b THEN a ELSE b

\* ------------------------------------------------------------- DataFrame
\* A dataset is [cols |-> the schema columns it has, rows |-> 0..n-1 -> row];
\* a row maps every schema column to a cell (NaN / "" where the column is
\* absent).  The N-NUMBER column is the row's position.
len(d) == Cardinality(DOMAIN d.rows)

EmptyDf == [cols |-> {}, rows |-> [i \in {} |-> [c \in ColumnSet |-> NaN]]]

\* Strings read_csv turns into NaN (pandas' default na_values) among the
\* cell texts of the model.
na_values == { "", "N/A" }

\* pd.read_csv(self.input_file, low_memory=False)
read_csv(file) ==
    [cols |-> file.cols,
     rows |-> [i \in DOMAIN file.rows |->
                 [c \in ColumnSet |->
                    IF file.rows[i][c] \in na_values THEN NaN
                    ELSE file.rows[i][c]]]]

\* df.to_csv(self.output_file, index=False): NaN is written as the empty text
to_csv(d) ==
    [cols |-> d.cols,
     rows |-> [i \in DOMAIN d.rows |->
                 [c \in ColumnSet |->
                    IF d.rows[i][c] = NaN THEN "" ELSE d.rows[i][c]]]]

\* A to_csv that failed part-way: the file was truncated on open and only
\* the first k rows reached it.
truncated(file, k) ==
    [cols |-> file.cols, rows |-> [i \in 0..(k - 1) |-> file.rows[i]]]

\* Series.isnull()
isnull(v) == v = NaN

\* Series.astype(str)
astype_str(v) == IF v = NaN THEN "nan" ELSE v

\* the mask of get_first_empty_index without the isnull() test
EmptyMask_noNull(d) ==
    { i \in DOMAIN d.rows : Len(astype_str(d.rows[i]["STATUS"])) = 0 }

\* df["STATUS"].isnull() | (df["STATUS"].astype(str).apply(len) == 0)
EmptyMask(d) ==
    { i \in DOMAIN d.rows :
        isnull(d.rows[i]["STATUS"])
        \/ Len(astype_str(d.rows[i]["STATUS"])) = 0 }

\* Scraper.get_first_empty_index
get_first_empty_index(d) ==
    IF "STATUS" \notin d.cols
    THEN 0
    ELSE IF EmptyMask(d) = {}
         THEN len(d)
         ELSE CHOOSE i \in EmptyMask(d) : \A j \in EmptyMask(d) : i <= j

\* ------------------------------------------------------ fetched documents
\* Labels of the registry page's tables (the title-cased schema names).
Labels == { title(c) : c \in ColumnSet }

EmptyMap == [l \in {} |-> ""]

\* What session.post does for one request: it raises (a timeout, an aiohttp
\* client error) or yields a response with a status and a body; a body
\* either holds the devkit tables with a label -> value content, or holds no
\* table at all.
FetchError == [net |-> "client_error", tables |-> FALSE, data |-> EmptyMap]
FetchTimeout == [net |-> "timeout", tables |-> FALSE, data |-> EmptyMap]
ServerErrorPage == [net |-> "status_500", tables |-> FALSE, data |-> EmptyMap]
NoTablePage == [net |-> "status_200", tables |-> FALSE, data |-> EmptyMap]
FullPage ==
    [net |-> "status_200", tables |-> TRUE, data |-> [l \in Labels |-> Valid]]
NoStatusPage ==
    [net |-> "status_200", tables |-> TRUE,
     data |-> [l \in Labels \ {"Status"} |-> Valid]]

\* no response received (yet)
NoResponse == [net |-> "none", tables |-> FALSE, data |-> EmptyMap]

\* The outcomes the batch runs are explored with.
Responses == { FetchError, NoTablePage, FullPage, NoStatusPage }

\* Every page with tables: any subset of the labels, one value per page.
Pages ==
    { [net |-> "status_200", tables |-> TRUE, data |-> [l \in S |-> v]] :
        S \in SUBSET Labels, v \in {Valid, Expired} }

\* The outcomes one unit is explored with.
AllResponses ==
    { FetchError, FetchTimeout, ServerErrorPage, NoTablePage } \cup Pages

\* fetch_html: None when session.post or response.text() raised (both except
\* clauses), otherwise the body text whatever the status
fetch_html(resp) == resp.net \notin {"timeout", "client_error"}

\* pd.read_html raises ValueError("No tables found") on a page without
\* tables; nothing in process_record or write_record catches it.
read_html_raises(resp) == fetch_html(resp) /\ ~resp.tables

\* process_record looking labels up under the column name, without title()
process_record_drop(resp) ==
    IF ~fetch_html(resp) THEN [c \in {} |-> NA]
    ELSE [c \in ColumnSet |->
            IF c \in DOMAIN resp.data THEN resp.data[c] ELSE NA]

\* a process_record that fills the schema with the sentinel when the fetch
\* failed
process_record_sentinel(resp) ==
    [c \in ColumnSet |->
        IF fetch_html(resp) /\ title(c) \in DOMAIN resp.data
        THEN resp.data[title(c)] ELSE NA]

\* Scraper.process_record, when it returns: {} after a failed fetch, else
\* every schema column looked up under its title-cased name, "N/A" if absent
process_record(resp) ==
    IF ~fetch_html(resp)
    THEN [c \in {} |-> NA]
    ELSE [c \in ColumnSet |->
            IF title(c) \in DOMAIN resp.data THEN resp.data[title(c)] ELSE NA]

\* write_record seen part-way through its loop: only the first item stored
write_record_partial(d, index, data_dict) ==
    [cols |-> d.cols \cup DOMAIN data_dict,
     rows |-> [d.rows EXCEPT ![index] =
                 [c \in ColumnSet |->
                    IF c \in DOMAIN data_dict /\ c = columns[1]
                    THEN data_dict[c] ELSE @[c]]]]

\* the loop of write_record: df.at[index, column] = value for every item
write_record(d, index, data_dict) ==
    [cols |-> d.cols \cup DOMAIN data_dict,
     rows |-> [d.rows EXCEPT ![index] =
                 [c \in ColumnSet |->
                    IF c \in DOMAIN data_dict THEN data_dict[c] ELSE @[c]]]]

\* end_index computed one row too far: consecutive windows overlap
end_index_overlap(i, n) == Min(i + batch_size + 1, n)

\* a window one row short of the loop's step
end_index_short(i, n) == Min(i + batch_size - 1, n)

\* end_index = min(index + batch_size, total_records)
end_index(i, n) == Min(i + batch_size, n)

\* every remaining row made a task at once, not only range(index, end_index)
Window_all(i, n) == i .. (n - 1)

\* range(index, end_index): the rows of the batch that starts at i
Window(i, n) == i .. (end_index(i, n) - 1)

\* ------------------------------------------------------------------ state
VARIABLES
    disk,         \* the CSV file (input_file = output_file)
    df,           \* the DataFrame of the running invocation
    pc,           \* position of gather_with_concurrency / run_scraper
    start_index,  \* result of get_first_empty_index at load
    index,        \* loop variable of the batch loop
    unit,         \* per row: state of its write_record task in this run
    loaded,       \* history: df as read at the start of this run
    diskAtLoad,   \* history: the file as it was when this run read it
    wcount,       \* history: per row, number of write_record writes
    flushed,      \* history: start indices of the batches whose to_csv returned
    snaps,        \* history: df at the moment each batch was fully drained
    flushes,      \* history: number of to_csv calls of this run
    intrAt,       \* history: value of flushes when the except clause ran, or -1
    cause,        \* history: what raised into the except clause
    requests,     \* history: per row, number of requests issued in this run
    got           \* history: per row, what its request came back with

vars == << disk, df, pc, start_index, index, unit, loaded, diskAtLoad,
           wcount, flushed, snaps, flushes, intrAt, cause, requests, got >>

hist == << loaded, diskAtLoad, wcount, flushed, snaps, flushes, intrAt, cause,
           requests, got >>

NoUnits == [i \in {} |-> "idle"]
NoCounts == [i \in {} |-> 0]
NoneGot == [i \in {} |-> NoResponse]

\* ------------------------------------------------------------ input files
BlankCells == [c \in ColumnSet |-> ""]
OldCells == [c \in ColumnSet |-> Expired]

\* A first-run input (identifiers only) or a file that already has the
\* schema columns, each row either blank or filled by an earlier enrichment.
InputFiles ==
    UNION { { [cols |-> {}, rows |-> [i \in 0..(n - 1) |-> BlankCells]] }
            \cup { [cols |-> ColumnSet, rows |-> r] :
                     r \in [0..(n - 1) -> {BlankCells, OldCells}] }
          : n \in 0..MaxLen }

Init ==
    /\ disk \in InputFiles
    /\ df = EmptyDf
    /\ pc = "init"
    /\ start_index = 0
    /\ index = 0
    /\ unit = NoUnits
    /\ loaded = EmptyDf
    /\ diskAtLoad = EmptyDf
    /\ wcount = NoCounts
    /\ flushed = {}
    /\ snaps = {}
    /\ flushes = 0
    /\ intrAt = -1
    /\ cause = "none"
    /\ requests = NoCounts
    /\ got = NoneGot

\* ---------------------------------------------------------------- actions
\* gather_with_concurrency, lines 156-161: read the file, locate the
\* checkpoint.
Load ==
    /\ pc = "init"
    /\ df' = read_csv(disk)
    /\ start_index' = get_first_empty_index(df')
    /\ index' = start_index'
    /\ unit' = [i \in DOMAIN df'.rows |-> "idle"]
    /\ pc' = "loop"
    /\ loaded' = df'
    /\ diskAtLoad' = disk
    /\ wcount' = [i \in DOMAIN df'.rows |-> 0]
    /\ flushed' = {}
    /\ snaps' = {}
    /\ flushes' = 0
    /\ intrAt' = -1
    /\ cause' = "none"
    /\ requests' = [i \in DOMAIN df'.rows |-> 0]
    /\ got' = [i \in DOMAIN df'.rows |-> NoResponse]
    /\ UNCHANGED disk

\* lines 164-167: the next window's tasks are created and gathered; each
\* task reads its identifier and issues its request.
StartBatch ==
    /\ pc = "loop"
    /\ index < len(df)
    /\ unit' = [i \in DOMAIN unit |->
                  IF i \in Window(index, len(df)) THEN "fetching" ELSE unit[i]]
    /\ requests' = [i \in DOMAIN requests |->
                      IF i \in Window(index, len(df)) THEN requests[i] + 1
                      ELSE requests[i]]
    /\ pc' = "gather"
    /\ UNCHANGED << disk, df, start_index, index, loaded, diskAtLoad, wcount,
                    flushed, snaps, flushes, intrAt, cause, got >>

\* a gather that returns as soon as one task of the batch has returned
BatchDrained_first(u, i, n) ==
    \E j \in Window(i, n) : u[j] \in {"failed", "written"}

\* a gather that also waits for the rows of the batches not yet started
BatchDrained_beyond(u, i, n) ==
    \A j \in i..(n - 1) : u[j] \in {"failed", "written"}

\* asyncio.gather returns normally once every task of the batch returned
BatchDrained(u, i, n) == \A j \in Window(i, n) : u[j] \in {"failed", "written"}

\* asyncio.gather (return_exceptions=False) raises as soon as one task raised
GatherRaises(u) == \E j \in DOMAIN u : u[j] = "raised"

\* A unit resumes with the outcome of its request and runs to its end
\* without suspending: process_record lines 104-127, write_record 152-153.
FetchReturn(i, resp) ==
    /\ pc \in {"gather", "interrupted"}
    /\ unit[i] = "fetching"
    /\ IF read_html_raises(resp)
       THEN /\ unit' = [unit EXCEPT ![i] = "raised"]
            /\ UNCHANGED << df, wcount >>
       ELSE /\ df' = write_record(df, i, process_record(resp))
            /\ unit' = [unit EXCEPT ![i] =
                          IF fetch_html(resp) THEN "written" ELSE "failed"]
            /\ wcount' = [wcount EXCEPT ![i] =
                            IF fetch_html(resp) THEN @ + 1 ELSE @]
    /\ got' = [got EXCEPT ![i] = resp]
    /\ snaps' = IF pc = "gather" /\ BatchDrained(unit', index, len(df))
                THEN snaps \cup {df'} ELSE snaps
    /\ UNCHANGED << disk, pc, start_index, index, loaded, diskAtLoad,
                    flushed, flushes, intrAt, cause, requests >>

\* lines 168-170 after gather returned: to_csv of the whole DataFrame.  It
\* either returns, or raises leaving the file as it was or truncated.
Flush ==
    /\ pc = "gather"
    /\ BatchDrained(unit, index, len(df))
    /\ ~GatherRaises(unit)
    /\ flushes' = flushes + 1
    /\ \/ /\ disk' = to_csv(df)
          /\ flushed' = flushed \cup {index}
          /\ index' = index + batch_size
          /\ pc' = "loop"
          /\ UNCHANGED << intrAt, cause >>
       \/ /\ \/ disk' = disk
             \/ \E k \in 0..(len(df) - 1) : disk' = truncated(to_csv(df), k)
          /\ pc' = "interrupted"
          /\ intrAt' = flushes'
          /\ cause' = "to_csv"
          /\ UNCHANGED << flushed, index >>
    /\ UNCHANGED << df, start_index, unit, loaded, diskAtLoad, wcount, snaps,
                    requests, got >>

\* lines 172-173 after the loop: the last to_csv, "Processing complete."
FinalFlush ==
    /\ pc = "loop"
    /\ index >= len(df)
    /\ flushes' = flushes + 1
    /\ \/ /\ disk' = to_csv(df)
          /\ pc' = "complete"
          /\ UNCHANGED << intrAt, cause >>
       \/ /\ \/ disk' = disk
             \/ \E k \in 0..(len(df) - 1) : disk' = truncated(to_csv(df), k)
          /\ pc' = "interrupted"
          /\ intrAt' = flushes'
          /\ cause' = "to_csv"
    /\ UNCHANGED << df, start_index, index, unit, loaded, diskAtLoad,
                    wcount, flushed, snaps, requests, got >>

\* lines 167, 174-175: the exception of a task leaves gather, the session
\* block and the loop; the except clause logs and the coroutine returns.
Interrupt ==
    /\ pc = "gather"
    /\ GatherRaises(unit)
    /\ pc' = "interrupted"
    /\ intrAt' = flushes
    /\ cause' = "task"
    /\ UNCHANGED << disk, df, start_index, index, unit, loaded,
                    diskAtLoad, wcount, flushed, snaps, flushes, requests,
                    got >>

\* run_scraper lines 180-181: run_until_complete returns and the loop stops;
\* tasks still pending are never resumed.
Return ==
    /\ pc \in {"complete", "interrupted"}
    /\ pc' = "done"
    /\ unit' = [i \in DOMAIN unit |->
                  IF unit[i] = "fetching" THEN "abandoned" ELSE unit[i]]
    /\ UNCHANGED << disk, df, start_index, index, hist >>

\* the operator runs the script again on the file it left (lines 184-186)
Restart ==
    /\ pc = "done"
    /\ pc' = "init"
    /\ df' = EmptyDf
    /\ start_index' = 0
    /\ index' = 0
    /\ unit' = NoUnits
    /\ loaded' = EmptyDf
    /\ diskAtLoad' = EmptyDf
    /\ wcount' = NoCounts
    /\ flushed' = {}
    /\ snaps' = {}
    /\ flushes' = 0
    /\ intrAt' = -1
    /\ cause' = "none"
    /\ requests' = NoCounts
    /\ got' = NoneGot
    /\ UNCHANGED disk

Next ==
    \/ Load
    \/ StartBatch
    \/ \E i \in DOMAIN unit : \E resp \in Responses : FetchReturn(i, resp)
    \/ Flush
    \/ FinalFlush
    \/ Interrupt
    \/ Return
    \/ Restart

Spec == Init /\ [][Next]_vars

\* ------------------------------------------------ one invocation, scheduled
\* The steps of the coordinating flow: gather_with_concurrency and the
\* return of run_until_complete.
Coordinator ==
    \/ Load
    \/ StartBatch
    \/ Flush
    \/ FinalFlush
    \/ Interrupt
    \/ Return

\* A pending task resumes with the outcome of its request.
UnitStep == \E i \in DOMAIN unit : \E resp \in Responses : FetchReturn(i, resp)

NextRun == Coordinator \/ UnitStep

\* One invocation of the script.  The event loop runs the coordinating flow
\* whenever it is ready, and every issued request eventually returns a
\* document or a failure.
RunSpec ==
    /\ Init
    /\ [][NextRun]_vars
    /\ WF_vars(Coordinator)
    /\ WF_vars(UnitStep)

\* ------------------------------------------- the locator as a pure function
\* Datasets handed to get_first_empty_index: with or without the STATUS
\* column, every STATUS cell NaN, the empty string or a non-empty string.
StatusCells == { NaN, "", NA, Valid }

LocateInputs ==
    UNION { { [cols |-> {}, rows |-> [i \in 0..(n - 1) |->
                                        [c \in ColumnSet |-> NaN]]] }
            \cup { [cols |-> ColumnSet,
                    rows |-> [i \in 0..(n - 1) |->
                                [c \in ColumnSet |->
                                   IF c = "STATUS" THEN st[i] ELSE NaN]]] :
                     st \in [0..(n - 1) -> StatusCells] }
          : n \in 0..MaxLen }

LocateInit ==
    /\ df \in LocateInputs
    /\ loaded = df
    /\ pc = "locate"
    /\ start_index = 0
    /\ index = 0
    /\ disk = EmptyDf
    /\ unit = NoUnits
    /\ diskAtLoad = EmptyDf
    /\ wcount = NoCounts
    /\ flushed = {}
    /\ snaps = {}
    /\ flushes = 0
    /\ intrAt = -1
    /\ cause = "none"
    /\ requests = NoCounts
    /\ got = NoneGot

\* start_index = self.get_first_empty_index(df)
Locate ==
    /\ pc = "locate"
    /\ start_index' = get_first_empty_index(df)
    /\ pc' = "located"
    /\ UNCHANGED << disk, df, index, unit, hist >>

LocateNext == Locate

LocateSpec == LocateInit /\ [][LocateNext]_vars

\* ----------------------------------------------------------------- claims
\* A record is complete iff its STATUS is neither null nor the empty string.
Incomplete(d, i) == d.rows[i]["STATUS"] \in { NaN, "" }

RECURSIVE FirstIncompleteFrom(_, _)
FirstIncompleteFrom(d, i) ==
    IF i >= len(d) THEN len(d)
    ELSE IF Incomplete(d, i) THEN i
    ELSE FirstIncompleteFrom(d, i + 1)

CheckpointReference(d) ==
    IF "STATUS" \in d.cols THEN FirstIncompleteFrom(d, 0) ELSE 0

\* C1: get_first_empty_index returns 0 for a dataset without a STATUS column,
\* otherwise the smallest index whose STATUS is null or the empty string,
\* otherwise the dataset's length; so with rows [0,k) complete and row k not,
\* it returns k.  The dataset it was given is left as it was.
CheckpointLocatorCorrect ==
    pc = "located" =>
        /\ start_index = CheckpointReference(df)
        /\ \A k \in DOMAIN df.rows :
             ( "STATUS" \in df.cols
               /\ Incomplete(df, k)
               /\ \A j \in 0..(k - 1) : ~Incomplete(df, j) ) => start_index = k
        /\ df = loaded

\* C1 witness: two complete rows (one holding "N/A") before an empty-string
\* STATUS, located at index 2.
CheckpointLocatorWitness ==
    /\ pc = "located"
    /\ "STATUS" \in df.cols
    /\ len(df) = 3
    /\ df.rows[0]["STATUS"] = NA
    /\ df.rows[1]["STATUS"] = Valid
    /\ df.rows[2]["STATUS"] = ""
    /\ start_index = 2

\* The batch that row j belongs to in this run (its start index).
BatchOf(j) == start_index + ((j - start_index) \div batch_size) * batch_size

\* The record was complete in the dataset this run loaded.
CompleteAtLoad(i) == "STATUS" \in loaded.cols /\ ~Incomplete(loaded, i)

\* C2: idempotent resume: a record that is complete in the dataset loaded at
\* the start of the run is never fetched and never altered by that run,
\* wherever it lies relative to the first incomplete record.
IdempotentResume ==
    pc \notin {"init", "locate", "located"} =>
        \A i \in DOMAIN loaded.rows :
            CompleteAtLoad(i) =>
                /\ unit[i] = "idle"
                /\ df.rows[i] = loaded.rows[i]

\* The run is past its load (the positions of the batch loop and after it).
Running == pc \in {"loop", "gather", "complete", "interrupted", "done"}

\* The checkpoint a following run would compute from the file as it is now.
NextCheckpoint == get_first_empty_index(read_csv(disk))

Failed == { i \in DOMAIN unit : unit[i] = "failed" }

\* Row j of the file holds what row j of the DataFrame would be written as.
OnDisk(j) == j \in DOMAIN disk.rows /\ disk.rows[j] = to_csv(df).rows[j]

\* The first record this run left incomplete is k, a record whose fetch
\* failed: every record before it was complete at load and untouched, or was
\* fetched, extracted and written by this run.
FirstFailedRecord(k) ==
    /\ k \in Failed
    /\ ~CompleteAtLoad(k)
    /\ \A j \in 0..(k - 1) :
          \/ j < start_index
          \/ unit[j] = "written"

\* C3: failure isolation for transport failures: when the fetch of one
\* identifier of a batch fails, its record is left unchanged, every other
\* unit of that batch whose fetch and extraction succeeded is written and is
\* in the file once the run has ended (unless to_csv itself failed), the run
\* went on with the later batches, and the checkpoint of a following run is
\* the index of the first record whose fetch failed.
TransportFailureIsolated ==
    \A i \in Failed :
        /\ df.rows[i] = loaded.rows[i]
        /\ (pc = "done" /\ cause # "to_csv") =>
              /\ \A j \in Window(BatchOf(i), len(df)) :
                    unit[j] = "written" => OnDisk(j)
              /\ \A j \in DOMAIN unit : j > i => unit[j] # "idle"
              /\ FirstFailedRecord(i) => NextCheckpoint = i

\* C4: extraction failure isolation: a document without a table affects only
\* its own record: the record is left unchanged, the failure does not reach
\* the run loop, and when no to_csv failed the run ends with every pending
\* unit finished and every batch flushed.
ExtractionFailureIsolated ==
    \A i \in DOMAIN unit :
        unit[i] = "raised" =>
            /\ df.rows[i] = loaded.rows[i]
            /\ cause # "task"
            /\ (pc = "done" /\ cause = "none") =>
                  \A j \in DOMAIN unit :
                      j >= start_index =>
                          /\ unit[j] \in {"failed", "written", "raised"}
                          /\ BatchOf(j) \in flushed

\* C5: final flush on interruption: a run that was interrupted while a batch
\* was being processed or flushed, by a task's exception or by a failing
\* to_csv, attempts exactly one more to_csv before it exits.
FinalFlushOnInterruption ==
    (pc = "done" /\ cause # "none" /\ index < len(df)) =>
        flushes = intrAt + 1

\* C6: durable snapshot: throughout a run the file is the one that was
\* loaded, or the serialisation of the DataFrame as it was at load or at
\* the end of a fully drained batch; right after a to_csv that returned,
\* file and DataFrame agree.
DurableSnapshot ==
    Running =>
        \/ disk = diskAtLoad
        \/ \E d \in snaps \cup {loaded} : disk = to_csv(d)

\* C8: batch drain: the scheduler is past a batch only when every unit of
\* it has finished by success or by its own failure; no unit is in flight
\* once the scheduler has left the gather, and none is ever abandoned.
BatchDrain ==
    \A i \in DOMAIN unit :
        /\ unit[i] = "fetching" => pc = "gather"
        /\ unit[i] # "abandoned"

\* C10: convergence: a run that ended normally and in which the fetch and
\* the extraction of every identifier it attempted succeeded leaves a file
\* in which every record is complete, so that a further run finds the
\* checkpoint at the dataset's length; and a run that finds it there issues
\* no fetch and leaves the persisted dataset as it read it.
Convergence ==
    /\ ( /\ pc = "done"
         /\ cause = "none"
         /\ \A i \in DOMAIN unit : i >= start_index => unit[i] = "written" )
       => NextCheckpoint = len(read_csv(disk))
    /\ ( /\ Running
         /\ cause = "none"
         /\ start_index = len(df) )
       => /\ \A i \in DOMAIN unit : unit[i] = "idle"
          /\ read_csv(disk) = loaded

\* The units that have returned or raised.
Finished(i) == unit[i] \in {"failed", "written", "raised"}

\* C7: strict batch sequencing: a unit is in flight only as a member of the
\* current batch, and only when every unit of every earlier batch of the run
\* has finished and that batch's to_csv has returned; the file is written
\* only by a to_csv of the coordinating flow, taken when no unit is in
\* flight.
BatchSequencingInv ==
    \A i \in DOMAIN unit :
        unit[i] = "fetching" =>
            /\ i \in Window(index, len(df))
            /\ \A j \in DOMAIN unit :
                  (start_index <= j /\ j < index) =>
                      /\ Finished(j)
                      /\ BatchOf(j) \in flushed

FlushStep ==
    (flushes' > flushes \/ disk' # disk) =>
        /\ \A i \in DOMAIN unit : unit[i] # "fetching"
        /\ unit' = unit
        /\ df' = df
        /\ flushes' = flushes + 1

StrictBatchSequencing == []BatchSequencingInv /\ [][FlushStep]_vars

\* C7 witness: the second batch is in flight after the first one was drained
\* and flushed.
StrictBatchSequencingWitness ==
    /\ pc = "gather"
    /\ start_index = 0
    /\ index = batch_size
    /\ flushed = {0}
    /\ unit[0] = "written"
    /\ unit[1] = "failed"
    /\ unit[batch_size] = "fetching"

\* C9 (state part): no row is written by two units of one run.
WrittenOnce == \A i \in DOMAIN wcount : wcount[i] <= 1

\* C9 (step part): a row that changes while a run is past its load lies in
\* the current batch window and is the row of the unit that took the step;
\* every other row is left as it was.
RowWriteStep ==
    \A i \in (DOMAIN df.rows) \cap (DOMAIN df'.rows) :
        df'.rows[i] # df.rows[i] =>
            /\ i \in Window(index, len(df))
            /\ unit[i] = "fetching"
            /\ unit'[i] = "written"
            /\ \A j \in DOMAIN df.rows : j # i => df'.rows[j] = df.rows[j]

\* C9: batch disjointness: every row mutated while a batch is in flight lies
\* inside the batch window, each unit writes only its own row, and no row is
\* written twice in a run.
BatchDisjointness == []WrittenOnce /\ [][RowWriteStep]_vars

\* C9 witness: both units of a full batch and the unit of the short last
\* batch have written their rows.
BatchDisjointnessWitness ==
    /\ len(df) = batch_size + 1
    /\ \A i \in DOMAIN wcount : wcount[i] = 1
    /\ \A i \in DOMAIN unit : unit[i] = "written"
    /\ df.rows[0] # df.rows[1]

\* run_scraper returned normally after logging "Scraper completed."; it has
\* no other way to end.
NormalCompletion == pc = "done"

\* C11: run-level failure is surfaced: once a to_csv has failed, no unit is
\* in flight and no batch is started, the run does not end by the normal
\* return of run_scraper ("Scraper completed."), and the file it leaves is a
\* snapshot some to_csv of the run wrote in full, or the file as loaded.
RunFailureSurfaced ==
    cause = "to_csv" =>
        /\ \A i \in DOMAIN unit : unit[i] # "fetching"
        /\ ~NormalCompletion
        /\ pc # "interrupted" =>
              \/ disk = diskAtLoad
              \/ \E d \in snaps \cup {loaded} : disk = to_csv(d)

\* ------------------------------------------------- one unit, every outcome
\* A batch of one unit on a one-row input, its request in flight (the state
\* after Load and StartBatch); the unit is then resumed with every outcome
\* of AllResponses.
UnitFiles ==
    { [cols |-> {}, rows |-> [i \in {0} |-> BlankCells]],
      [cols |-> ColumnSet, rows |-> [i \in {0} |-> BlankCells]] }

UnitInit ==
    /\ disk \in UnitFiles
    /\ df = read_csv(disk)
    /\ pc = "gather"
    /\ start_index = 0
    /\ index = 0
    /\ unit = [i \in {0} |-> "fetching"]
    /\ loaded = df
    /\ diskAtLoad = disk
    /\ wcount = [i \in {0} |-> 0]
    /\ flushed = {}
    /\ snaps = {}
    /\ flushes = 0
    /\ intrAt = -1
    /\ cause = "none"
    /\ requests = [i \in {0} |-> 1]
    /\ got = [i \in {0} |-> NoResponse]

UnitNext == \E i \in DOMAIN unit : \E resp \in AllResponses : FetchReturn(i, resp)

UnitSpec == UnitInit /\ [][UnitNext]_vars

\* The unit of row i has received the outcome of its request.
Answered(i) == got[i] # NoResponse

\* C12: Record Fetcher outcome: every identifier gets exactly one request and
\* no retry, and fetch_html never raises; a timeout, a connection error and
\* a response with a non-success status each yield the failure outcome (the
\* unit ends as failed and writes nothing), and only a successful response
\* is passed on to the extraction.
RecordFetcherOutcome ==
    \A i \in DOMAIN unit :
        /\ unit[i] # "idle" => requests[i] = 1
        /\ Answered(i) =>
              /\ got[i].net \in {"timeout", "client_error", "status_500"}
                    => (unit[i] = "failed" /\ df.rows[i] = loaded.rows[i])
              /\ unit[i] \in {"written", "raised"}
                    => got[i].net = "status_200"

\* The run has ended by its normal path, every to_csv having returned.
EndedNormally == pc = "done" /\ cause = "none"

\* C13 as stated: after a run, every record whose fetch failed during the
\* run holds the "N/A" sentinel in its schema fields in the output dataset.
FailedShowsSentinel ==
    EndedNormally =>
        \A i \in Failed : \A c \in ColumnSet : disk.rows[i][c] = NA

\* C13 as amended: a record whose fetch failed is left exactly as the run
\* loaded it, in the DataFrame throughout the run and in the file a normally
\* ended run leaves; no sentinel is written into it.
FailedLeftAsLoaded ==
    \A i \in Failed :
        /\ df.rows[i] = loaded.rows[i]
        /\ EndedNormally =>
              /\ i \in DOMAIN disk.rows
              /\ disk.rows[i] = to_csv(loaded).rows[i]

\* C13 witness: a normally ended run in which the fetch of row 0 failed and
\* row 1 was written; row 0 is still empty in the file.
FailedLeftAsLoadedWitness ==
    /\ EndedNormally
    /\ len(df) >= 2
    /\ unit[0] = "failed"
    /\ unit[1] = "written"
    /\ disk.rows[0]["STATUS"] = ""
    /\ disk.rows[1]["STATUS"] = Valid

\* C14: extraction completeness: for the label -> value map of a parsed
\* document, the field map of process_record has exactly the schema's
\* columns as keys; each column holds the map's value under the title-cased
\* column name when that label is present and "N/A" when it is absent, so a
\* document with every schema label yields no sentinel; the row written is
\* that field map.
ExtractionComplete ==
    \A i \in DOMAIN unit :
        unit[i] = "written" =>
            /\ DOMAIN process_record(got[i]) = ColumnSet
            /\ df.cols = ColumnSet
            /\ \A c \in ColumnSet :
                  /\ title(c) \in DOMAIN got[i].data
                        => df.rows[i][c] = got[i].data[title(c)]
                  /\ title(c) \notin DOMAIN got[i].data
                        => df.rows[i][c] = NA
            /\ DOMAIN got[i].data = Labels
                  => \A c \in ColumnSet : df.rows[i][c] # NA

\* C14 witness: a page that lacks the Status and County labels was written:
\* those two columns hold the sentinel, the others the page's values.
ExtractionCompleteWitness ==
    /\ unit[0] = "written"
    /\ DOMAIN got[0].data = Labels \ {"Status", "County"}
    /\ df.rows[0]["STATUS"] = NA
    /\ df.rows[0]["COUNTY"] = NA
    /\ df.rows[0]["ENGINE MODEL"] = Expired

InFlight == { i \in DOMAIN unit : unit[i] = "fetching" }

\* C15: bounded concurrency: in every reachable state of a run at most
\* batch_size fetch requests are in flight, and every one of them belongs to
\* the one batch being processed, the rows index .. index + batch_size - 1.
BoundedConcurrency ==
    /\ Cardinality(InFlight) <= batch_size
    /\ \A i \in InFlight :
          /\ pc \in {"gather", "interrupted"}
          /\ index <= i
          /\ i < index + batch_size
          /\ i < len(df)

\* C15 witness: a full batch is in flight and rows remain beyond it.
BoundedConcurrencyWitness ==
    /\ pc = "gather"
    /\ Cardinality(InFlight) = batch_size
    /\ len(df) > index + batch_size

\* gather_with_concurrency left its loop and logged "Processing complete.":
\* no exception reached its except clause.
NotInterrupted == pc \in {"complete", "done"} /\ cause = "none"

\* C16: one attempt per pending identifier: no record receives a second
\* request in a run and none before the checkpoint receives any; in a run
\* that is not interrupted every record of [checkpoint, n) was assigned to a
\* unit and received exactly one request, so no record that was incomplete at
\* load was skipped.
OneAttemptPerPending ==
    Running =>
        \A i \in DOMAIN unit :
            /\ requests[i] <= 1
            /\ i < start_index => (requests[i] = 0 /\ unit[i] = "idle")
            /\ NotInterrupted =>
                  /\ i >= start_index
                        => (requests[i] = 1 /\ unit[i] \in {"written", "failed"})
                  /\ ~CompleteAtLoad(i) => requests[i] = 1

\* C16 witness: a run over three records from checkpoint 0 ended without
\* interruption after two batches; each record received one request.
OneAttemptPerPendingWitness ==
    /\ NotInterrupted
    /\ pc = "done"
    /\ start_index = 0
    /\ len(df) = batch_size + 1
    /\ flushed = {0, batch_size}
    /\ \A i \in DOMAIN unit : requests[i] = 1

\* The batches started so far by this run: the windows that hold a record
\* that received a request.
BatchesStarted ==
    Cardinality({ BatchOf(i) : i \in { j \in DOMAIN requests : requests[j] >= 1 } })

\* ceil((n - checkpoint) / batch_size)
MaxBatches == (len(df) - start_index + batch_size - 1) \div batch_size

\* run_until_complete has returned: DONE or the exit after an interruption.
Terminal == pc = "done"

\* C17: termination: when every issued fetch eventually returns, the run
\* eventually reaches its terminal state; it never starts more than
\* ceil((n - checkpoint) / batch_size) batches; and once the terminal state is
\* reached no batch is started, no unit is in flight and no unit runs.
Termination ==
    /\ [](Running => BatchesStarted <= MaxBatches)
    /\ <>Terminal
    /\ [](Terminal => InFlight = {})
    /\ [][Terminal => (Terminal' /\ UNCHANGED << unit, requests, got, df >>)]_vars

\* C17 witness: a run over three records from checkpoint 0 reached its
\* terminal state after ceil(3 / 2) batches.
TerminationWitness ==
    /\ Terminal
    /\ start_index = 0
    /\ len(df) = batch_size + 1
    /\ BatchesStarted = 2
    /\ BatchesStarted = MaxBatches

\* Every schema field of the row is the one the extraction of the document
\* received for record i produced.
WhollyExtracted(row, i) ==
    /\ got[i].tables
    /\ \A c \in ColumnSet :
          row[c] = IF title(c) \in DOMAIN got[i].data
                   THEN got[i].data[title(c)] ELSE NA

\* C18: row-level write atomicity: in every state between two steps of the
\* run (where another unit may run or a flush may be taken) each row of the
\* DataFrame holds either every field of one extraction or none of them (it
\* is as loaded); and every row of the file holds the row as the file had it
\* at load, as the load read it, or every field of one extraction.
RowWriteAtomic ==
    Running =>
        /\ \A i \in DOMAIN df.rows :
              \/ df.rows[i] = loaded.rows[i]
              \/ unit[i] = "written" /\ WhollyExtracted(df.rows[i], i)
        /\ \A i \in DOMAIN disk.rows :
              \/ disk.rows[i] = diskAtLoad.rows[i]
              \/ disk.rows[i] = to_csv(loaded).rows[i]
              \/ unit[i] = "written" /\ WhollyExtracted(disk.rows[i], i)

\* C18 witness: a batch was flushed while its second record's fetch had
\* failed: row 0 of the file, blank at load, holds the whole extraction of a
\* page without the Status label, and row 1 is as loaded.
RowWriteAtomicWitness ==
    /\ pc = "loop"
    /\ flushed = {0}
    /\ len(df) >= 2
    /\ unit[0] = "written"
    /\ unit[1] = "failed"
    /\ got[0] = NoStatusPage
    /\ diskAtLoad.rows[0] = BlankCells
    /\ diskAtLoad.rows[1] = OldCells
    /\ disk.rows[0]["STATUS"] = NA
    /\ disk.rows[0]["ENGINE MODEL"] = Valid
    /\ disk.rows[1] = to_csv(loaded).rows[1]

\* C19: completeness survives flush and reload: when the file is the flushed
\* DataFrame, every record that is complete in memory, one whose STATUS a
\* successful extraction set to "N/A" included, is complete in the dataset
\* the next run loads from that file, and the next run's checkpoint is not
\* that record.
CompletenessSurvivesReload ==
    (Running /\ flushes > 0 /\ disk = to_csv(df)) =>
        \A i \in DOMAIN df.rows :
            ("STATUS" \in df.cols /\ ~Incomplete(df, i)) =>
                /\ ~Incomplete(read_csv(disk), i)
                /\ NextCheckpoint # i

====
